---- MODULE Spec2Model ----
(***************************************************************************)
(* A model of src/src/services/realDatabaseService.js: the catalog reads   *)
(* with their cache slots, the statistics fan-out, the counselor request   *)
(* workflow and its reads, and the searches and lookups with the selects   *)
(* they build, each async method cut at its await points; and of           *)
(* src/src/components/SignInPage.jsx: its redirect effect, handleSubmit and *)
(* the timer handleSubmit sets.                                            *)
(*                                                                         *)
(* Every value of one field has one shape: JavaScript null is the row set  *)
(* Null, the string "null" for an error or a counselor id, and 0 for a     *)
(* timestamp; "" is a null or empty text.                                  *)
(***************************************************************************)
EXTENDS Integers, Sequences, FiniteSets, TLC

\* ------------------------------------------------------------------ bounds
\* Row names a catalog table can hold: a table is a subset of 1..MaxRows.
MaxRows == 1
\* Rows the counselor_requests table can hold.
MaxRequests == 2
\* The last reading of the client clock: new Date() is in 1..MaxClock.
MaxClock == 2
\* Rows a table that is searched or looked up in can hold.
MaxTableRows == 2
\* Times the sign-in form is submitted.
MaxSubmits == 2

\* ------------------------------------------------------------------ values
Names == 1..MaxRows

\* The four catalog collections, in the order getStatistics lists them.
Colls == <<"countries", "universities", "courses", "pathways">>
CollSet == {Colls[i] : i \in 1..Len(Colls)}

\* A bug CachedColls could have: courses given a cache slot that is used.
CachedCollsWithCourses == {"countries", "pathways", "courses"}

\* The collections whose read method consults this.cache.
CachedColls == {"countries", "pathways"}

\* The tasks that call the service directly.
Callers == {"c1", "c2"}

\* One activation of a getAll* method per caller, and one per collection for
\* the four calls getStatistics makes.
Slots == Callers \cup CollSet

Null == [kind |-> "null", rows |-> <<>>]
Rows(s) == [kind |-> "rows", rows |-> s]

\* {data, error}: what the store client resolves with and what a method returns.
Envelope(d, e) == [data |-> d, error |-> e]
NoEnvelope == Envelope(Null, "null")

\* The workflow's actors and the tasks that call its methods.
Students == {"s1", "s2"}
Counselors == {"k1"}
Clients == {"t1", "t2"}

\* What a caller may pass as the new status, and the requestData.status the
\* callers of createCounselorRequest pass.
StatusArgs == {"requested", "approved", "declined", "archived"}
RequestDataStatuses == {"requested"}

\* A client with no call running. In a running call, data is a sequence: the
\* one value the call sends to the store, then the rows it returns; before is
\* the number of rows the table held when the call was made (kept for the
\* properties only).
IdleOp == [pc |-> "idle", id |-> 0, data |-> <<>>, error |-> "null", before |-> 0]

IdleCall == [pc |-> "idle", coll |-> "none", resp |-> NoEnvelope, ret |-> NoEnvelope]
NoCounts == [k \in CollSet |-> 0]
IdleStats == [pc |-> "idle", ret |-> NoCounts]

\* JavaScript values a caller may pass as a search term, a filter or an id:
\* t is the type, s the characters of a string, n a number.
Undefined == [t |-> "undefined", s |-> <<>>, n |-> 0]
NullValue == [t |-> "null", s |-> <<>>, n |-> 0]
Str(s) == [t |-> "string", s |-> s, n |-> 0]
Num(n) == [t |-> "number", s |-> <<>>, n |-> n]
TrueValue == [t |-> "boolean", s |-> <<>>, n |-> 1]

\* The tables the searches and lookups read and the columns that hold numbers.
TableNames == {"n_countries", "new_universities", "new_courses", "counselors"}
NumCols == {"id", "country_id", "university_id"}
BoolCols == {"is_available"}

\* The roles a user may carry, and the auth context's user when nobody is
\* signed in.
Roles == {"student", "counselor", "admin"}
NoUser == "none"

\* A select that was not built, and no search or lookup running.
NoQuery == [table |-> "none", conds |-> <<>>, order |-> "none", single |-> FALSE]
IdleQuery == [pc |-> "idle", fn |-> "none", args |-> <<>>, q |-> NoQuery, ret |-> NoEnvelope]

VARIABLES
    store,        \* the remote catalog tables: collection -> set of row names
    cache,        \* this.cache: collection -> Null or the cached array
    call,         \* slot -> the activation of a getAll* method running in it
    stats,        \* the activation of getStatistics
    invalidated,  \* invalidateAll() was called and no getAllCountries() since
    requests,     \* the remote counselor_requests table, row i having id i
    now,          \* the client clock
    op,           \* client -> the activation of a workflow method running in it
    tables,       \* the remote tables with the columns searches and lookups read
    query,        \* the activation of a search or lookup method
    page          \* SignInPage: the auth context it reads, its state, its timers

catalogVars == <<store, cache, call, stats, invalidated>>
requestVars == <<requests, now, op>>
queryVars == <<tables, query>>
pageVars == <<page>>

vars == <<store, cache, call, stats, invalidated, requests, now, op, tables, query, page>>

\* ------------------------------------------------------------------ remote store
RECURSIVE SortAsc(_)
\* .order(field, {ascending: true}): the rows of S as an ascending sequence.
SortAsc(S) ==
    IF S = {} THEN <<>>
    ELSE LET m == CHOOSE x \in S : \A y \in S : x <= y
         IN <<m>> \o SortAsc(S \ {m})

\* What the store client resolves a select on table k with.
SelectAll(k) == Envelope(Rows(SortAsc(store[k])), "null")
TransportFailure == Envelope(Null, "TransportError")

\* JavaScript truthiness of a cache slot: null is falsy, every array is truthy.
Truthy(v) == v.kind # "null"

\* ------------------------------------------------------------------ getAll*
\* The synchronous part of a getAll* method up to its first await: a cached
\* collection with a truthy slot returns it, otherwise the select is sent.
EnterGetAll(k, c) ==
    IF k \in CachedColls /\ Truthy(c[k])
    THEN [pc |-> "fulfilled", coll |-> k, resp |-> NoEnvelope, ret |-> Envelope(c[k], "null")]
    ELSE [pc |-> "awaiting", coll |-> k, resp |-> NoEnvelope, ret |-> NoEnvelope]

\* A bug CacheAfter could have: the slot is filled before the error is looked
\* at, with an empty array standing in for the missing rows.
CacheAfterPoisoned(k, r, c) ==
    IF k \in CachedColls
    THEN [c EXCEPT ![k] = IF r.error = "null" THEN r.data ELSE Rows(<<>>)]
    ELSE c

\* A bug CacheAfter could have: the assignment of getAllCountries copied into
\* every method, so that each successful read fills this.cache.countries.
CacheAfterCrossed(k, r, c) ==
    IF r.error = "null"
    THEN [c EXCEPT !["countries"] = r.data]
    ELSE c

\* The cache after the continuation of a getAll* on collection k ran with the
\* response r: an error is thrown before the assignment, and only the cached
\* collections have an assignment.
CacheAfter(k, r, c) ==
    IF r.error = "null" /\ k \in CachedColls
    THEN [c EXCEPT ![k] = r.data]
    ELSE c

\* A bug Outcome could have: no catch block, the error leaves the method.
OutcomeUncaught(r) ==
    IF r.error = "null"
    THEN [pc |-> "fulfilled", ret |-> Envelope(r.data, "null")]
    ELSE [pc |-> "rejected", ret |-> NoEnvelope]

\* How the method settles for the response r: the rows in an envelope, or, the
\* error having been thrown and caught, {data: null, error}. It never rejects.
Outcome(r) ==
    IF r.error = "null"
    THEN [pc |-> "fulfilled", ret |-> Envelope(r.data, "null")]
    ELSE [pc |-> "fulfilled", ret |-> Envelope(Null, r.error)]

Settled(a) == a.pc \in {"fulfilled", "rejected"}

\* A caller invokes getAll<k>().
GetAll(s, k) ==
    /\ s \in Callers
    /\ call[s].pc = "idle"
    /\ call' = [call EXCEPT ![s] = EnterGetAll(k, cache)]
    /\ invalidated' = IF k = "countries" THEN FALSE ELSE invalidated
    /\ UNCHANGED <<store, cache, stats, requestVars, queryVars, pageVars>>

getAllCountries(s) == GetAll(s, "countries")
getAllUniversities(s) == GetAll(s, "universities")
getAllCourses(s) == GetAll(s, "courses")
getAllPathways(s) == GetAll(s, "pathways")

\* The store answers the select of slot s: the rows it holds now, or an error.
StoreResponds(s) ==
    /\ call[s].pc = "awaiting"
    /\ \E r \in {SelectAll(call[s].coll), TransportFailure} :
         call' = [call EXCEPT ![s].pc = "responded", ![s].resp = r]
    /\ UNCHANGED <<store, cache, stats, invalidated, requestVars, queryVars, pageVars>>

\* The continuation after the await: throw on error (caught, returned in the
\* envelope), otherwise fill the cache slot and return the rows.
ResumeGetAll(s) ==
    /\ call[s].pc = "responded"
    /\ cache' = CacheAfter(call[s].coll, call[s].resp, cache)
    /\ call' = [call EXCEPT ![s].pc = Outcome(call[s].resp).pc,
                            ![s].ret = Outcome(call[s].resp).ret]
    /\ UNCHANGED <<store, stats, invalidated, requestVars, queryVars, pageVars>>

\* The caller takes the result; its slot is free for the next call.
TakeResult(s) ==
    /\ s \in Callers
    /\ Settled(call[s])
    /\ call' = [call EXCEPT ![s] = IdleCall]
    /\ UNCHANGED <<store, cache, stats, invalidated, requestVars, queryVars, pageVars>>

\* Another client of the store adds or removes a row of table k.
StoreChanges(k) ==
    /\ \E n \in Names :
         store' = [store EXCEPT ![k] = IF n \in @ THEN @ \ {n} ELSE @ \cup {n}]
    /\ UNCHANGED <<cache, call, stats, invalidated, requestVars, queryVars, pageVars>>

\* A caller invokes invalidateAll(). The class defines no such method and no
\* other way to clear this.cache: the call raises a TypeError in the caller and
\* the service's state is as it was.
InvalidateAll ==
    /\ invalidated' = TRUE
    /\ UNCHANGED <<store, cache, call, stats, requestVars, queryVars, pageVars>>

\* ------------------------------------------------------------------ getStatistics
\* data?.length || 0
CountOf(e) == IF e.data.kind = "rows" THEN Len(e.data.rows) ELSE 0

\* The value getStatistics resolves with once its four calls have settled:
\* Promise.all rejects if one of them does, and the catch block answers zeros.
StatisticsOf(results) ==
    IF \E k \in CollSet : results[k].pc = "rejected"
    THEN NoCounts
    ELSE [k \in CollSet |-> CountOf(results[k].ret)]

\* getStatistics() is called: the four getAll* calls of the Promise.all list
\* each run to their first await, one after the other, in this one step.
GetStatistics ==
    /\ stats.pc = "idle"
    /\ call' = [s \in Slots |-> IF s \in CollSet THEN EnterGetAll(s, cache) ELSE call[s]]
    /\ stats' = [pc |-> "joining", ret |-> NoCounts]
    /\ invalidated' = FALSE
    /\ UNCHANGED <<store, cache, requestVars, queryVars, pageVars>>

\* All four calls have settled: the await of Promise.all resumes.
JoinStatistics ==
    /\ stats.pc = "joining"
    /\ \A k \in CollSet : Settled(call[k])
    /\ stats' = [pc |-> "done", ret |-> StatisticsOf([k \in CollSet |-> call[k]])]
    /\ UNCHANGED <<store, cache, call, invalidated, requestVars, queryVars, pageVars>>

\* The caller takes the counts.
TakeStatistics ==
    /\ stats.pc = "done"
    /\ stats' = IdleStats
    /\ call' = [s \in Slots |-> IF s \in CollSet THEN IdleCall ELSE call[s]]
    /\ UNCHANGED <<store, cache, invalidated, requestVars, queryVars, pageVars>>

\* ------------------------------------------------------------------ counselor requests
\* The row the store inserts for requestData: the caller's columns as given,
\* the serial id, and null in every column requestData does not name.
InsertedRow(id, requestData) ==
    [id |-> id,
     student_id |-> requestData.student_id,
     requested_counselor_id |-> requestData.requested_counselor_id,
     counselor_id |-> "null",
     status |-> requestData.status,
     admin_notes |-> "",
     requested_at |-> 0,
     approved_at |-> 0,
     updated_at |-> 0]

\* updateData as updateCounselorRequestStatus builds it at the time t:
\* admin_notes only for a truthy adminNotes, approved_at only for "approved".
UpdateData(status, adminNotes, t) ==
    [status |-> status, updated_at |-> t, admin_notes |-> adminNotes,
     approved_at |-> IF status = "approved" THEN t ELSE 0]

\* A bug UpdatedRow could have: updateData always carrying admin_notes, so
\* that a call without adminNotes overwrites the stored notes with null.
UpdatedRowClearingNotes(row, u) ==
    [row EXCEPT !.status = u.status,
                !.updated_at = u.updated_at,
                !.admin_notes = u.admin_notes,
                !.approved_at = IF u.approved_at # 0 THEN u.approved_at ELSE @]

\* .update(updateData) on one row: the columns updateData names are overwritten.
UpdatedRow(row, u) ==
    [row EXCEPT !.status = u.status,
                !.updated_at = u.updated_at,
                !.admin_notes = IF u.admin_notes # "" THEN u.admin_notes ELSE @,
                !.approved_at = IF u.approved_at # 0 THEN u.approved_at ELSE @]

\* createCounselorRequest(requestData) up to its await: the insert is sent.
createCounselorRequest(t, requestData) ==
    /\ op[t].pc = "idle"
    /\ op' = [op EXCEPT ![t] = [pc |-> "inserting", id |-> 0, data |-> <<requestData>>,
                                 error |-> "null", before |-> Len(requests)]]
    /\ UNCHANGED <<requests, now, catalogVars, queryVars, pageVars>>

\* What a workflow method returns: the id of the row in data (0 for null)
\* and the error.
Returned(id, error) == [pc |-> "done", id |-> id, data |-> <<>>, error |-> error, before |-> 0]

\* The store runs the insert of client t, or fails; the method returns
\* {data, error: null} with the inserted row, or {data: null, error}.
StoreInserts(t) ==
    /\ op[t].pc = "inserting"
    /\ \/ /\ Len(requests) < MaxRequests
          /\ requests' = Append(requests, InsertedRow(Len(requests) + 1, op[t].data[1]))
          /\ op' = [op EXCEPT ![t] = Returned(Len(requests) + 1, "null")]
       \/ /\ requests' = requests
          /\ op' = [op EXCEPT ![t] = Returned(0, "TransportError")]
    /\ UNCHANGED <<now, catalogVars, queryVars, pageVars>>

\* updateCounselorRequestStatus(requestId, status, adminNotes) up to its await:
\* updateData is built from the clock as it reads now, and the update is sent.
updateCounselorRequestStatus(t, requestId, status, adminNotes) ==
    /\ op[t].pc = "idle"
    /\ op' = [op EXCEPT ![t] = [pc |-> "updating", id |-> requestId,
                                 data |-> <<UpdateData(status, adminNotes, now)>>,
                                 error |-> "null", before |-> 0]]
    /\ UNCHANGED <<requests, now, catalogVars, queryVars, pageVars>>

\* A bug StoreUpdates could have: a request that is declined is purged from
\* the table instead of being kept with its new status.
StoreUpdatesPurging(t) ==
    /\ op[t].pc = "updating"
    /\ \/ /\ op[t].id \in 1..Len(requests)
          /\ requests' = IF op[t].data[1].status = "declined"
                         THEN SubSeq(requests, 1, op[t].id - 1)
                                \o SubSeq(requests, op[t].id + 1, Len(requests))
                         ELSE [requests EXCEPT ![op[t].id] = UpdatedRow(@, op[t].data[1])]
          /\ op' = [op EXCEPT ![t] = Returned(op[t].id, "null")]
       \/ /\ op[t].id \notin 1..Len(requests)
          /\ requests' = requests
          /\ op' = [op EXCEPT ![t] = Returned(0, "PGRST116")]
       \/ /\ requests' = requests
          /\ op' = [op EXCEPT ![t] = Returned(0, "TransportError")]
    /\ UNCHANGED <<now, catalogVars, queryVars, pageVars>>

\* The store runs the update of client t where id = requestId, or fails;
\* .single() makes no matching row an error too.
StoreUpdates(t) ==
    /\ op[t].pc = "updating"
    /\ \/ /\ op[t].id \in 1..Len(requests)
          /\ requests' = [requests EXCEPT ![op[t].id] = UpdatedRow(@, op[t].data[1])]
          /\ op' = [op EXCEPT ![t] = Returned(op[t].id, "null")]
       \/ /\ op[t].id \notin 1..Len(requests)
          /\ requests' = requests
          /\ op' = [op EXCEPT ![t] = Returned(0, "PGRST116")]
       \/ /\ requests' = requests
          /\ op' = [op EXCEPT ![t] = Returned(0, "TransportError")]
    /\ UNCHANGED <<now, catalogVars, queryVars, pageVars>>

\* The caller takes the result of a workflow method.
TakeOpResult(t) ==
    /\ op[t].pc = "done"
    /\ op' = [op EXCEPT ![t] = IdleOp]
    /\ UNCHANGED <<requests, now, catalogVars, queryVars, pageVars>>

\* Time passes on the client.
Tick ==
    /\ now < MaxClock
    /\ now' = now + 1
    /\ UNCHANGED <<requests, op, catalogVars, queryVars, pageVars>>

\* ------------------------------------------------------------------ counselor request reads
RECURSIVE NewestFirst(_)
\* .order('created_at', { ascending: false }): the rows with the ids I, the
\* row inserted last first (created_at is the store's time of the insert).
NewestFirst(I) ==
    IF I = {} THEN <<>>
    ELSE LET m == CHOOSE x \in I : \A y \in I : y <= x
         IN <<requests[m]>> \o NewestFirst(I \ {m})

\* .order('approved_at', { ascending: false }): every order of the rows with
\* the ids I in which approved_at never increases (ties come in any order).
ByApprovedAtDesc(I) ==
    LET n == Cardinality(I)
        perms == {f \in [1..n -> I] : \A i, j \in 1..n : i # j => f[i] # f[j]}
    IN {[i \in 1..n |-> requests[f[i]]] : f \in
          {g \in perms : \A i, j \in 1..n :
               i < j => requests[g[i]].approved_at >= requests[g[j]].approved_at}}

\* A bug StudentsOfCounselor could have: the rows are selected on the
\* counselor the student asked for, not on the one assigned.
StudentsOfRequestedCounselor(c) ==
    {i \in 1..Len(requests) :
        requests[i].requested_counselor_id = c /\ requests[i].status = "approved"}

\* .eq('counselor_id', counselorId).eq('status', 'approved'): the ids selected.
StudentsOfCounselor(c) ==
    {i \in 1..Len(requests) :
        requests[i].counselor_id = c /\ requests[i].status = "approved"}

\* .eq('student_id', studentId): the ids selected.
RequestsOfStudent(s) == {i \in 1..Len(requests) : requests[i].student_id = s}

\* The arrays the store may answer the select q with.
SelectRequests(q) ==
    IF q.query = "byStudent" THEN {NewestFirst(RequestsOfStudent(q.arg))}
    ELSE ByApprovedAtDesc(StudentsOfCounselor(q.arg))

\* A read of counselor_requests up to its await: the select is sent.
SendSelect(t, which, arg) ==
    /\ op[t].pc = "idle"
    /\ op' = [op EXCEPT ![t] = [pc |-> "selecting", id |-> 0,
                                 data |-> <<[query |-> which, arg |-> arg]>>,
                                 error |-> "null", before |-> 0]]
    /\ UNCHANGED <<requests, now, catalogVars, queryVars, pageVars>>

getCounselorRequestByStudent(t, studentId) == SendSelect(t, "byStudent", studentId)
getCounselorStudents(t, counselorId) == SendSelect(t, "students", counselorId)

\* What a read returns on success: { data: rows, error: null }.
ReturnedRows(rows) == [pc |-> "done", id |-> 0, data |-> rows, error |-> "null", before |-> 0]

\* The store runs the select of client t over the table as it is now, or
\* fails; the method returns the rows or { data: null, error }.
StoreSelects(t) ==
    /\ op[t].pc = "selecting"
    /\ \/ \E rows \in SelectRequests(op[t].data[1]) :
            op' = [op EXCEPT ![t] = ReturnedRows(rows)]
       \/ op' = [op EXCEPT ![t] = Returned(0, "TransportError")]
    /\ UNCHANGED <<requests, now, catalogVars, queryVars, pageVars>>

\* ------------------------------------------------------------------ searches and lookups
\* A bug IsTruthy could have: only undefined counts as no value, so that null
\* and the empty string are applied as filters.
IsDefined(v) == v.t # "undefined"

\* JavaScript truthiness of a search term or a filter value.
IsTruthy(v) == (v.t = "string" /\ v.s # <<>>) \/ (v.t = "number" /\ v.n # 0)

\* filters.f: undefined when the object has no such field.
Field(filters, f) == IF f \in DOMAIN filters THEN filters[f] ELSE Undefined

\* Text as the store compares it for ilike: letters in lower case.
Lower(c) == CASE c = "A" -> "a" [] c = "B" -> "b" [] OTHER -> c
LowerStr(s) == [i \in 1..Len(s) |-> Lower(s[i])]
Contains(text, pat) ==
    \E i \in 0..(Len(text) - Len(pat)) : SubSeq(text, i + 1, i + Len(pat)) = pat

\* column ILIKE '%v%'
ILike(text, v) == Contains(LowerStr(text), LowerStr(v))

\* column = v, for the column col holding x
EqCol(col, x, v) ==
    IF col \in NumCols THEN v.t = "number" /\ x = v.n
    ELSE IF col \in BoolCols THEN v.t = "boolean" /\ x = (v.n = 1)
    ELSE v.t = "string" /\ x = v.s

\* The place of a letter in the collation, and the order of two texts in it.
Ord(c) == IF Lower(c) = "a" THEN 1 ELSE 2

RECURSIVE StrLeq(_, _)
StrLeq(s, u) ==
    IF s = <<>> THEN TRUE
    ELSE IF u = <<>> THEN FALSE
    ELSE IF Ord(s[1]) = Ord(u[1]) THEN StrLeq(Tail(s), Tail(u))
    ELSE Ord(s[1]) < Ord(u[1])

\* One condition of a select: .eq(col, val), .ilike(col, `%val%`), or an
\* .or() of ilike conditions on several columns.
Cond(o, cols, val) == [op |-> o, cols |-> cols, val |-> val]

\* The conditions a method adds for a value it looks at: none for a falsy one.
When(v, cond) == IF IsTruthy(v) THEN <<cond>> ELSE <<>>

\* The select searchUniversities(searchTerm, filters) builds.
UniversitiesQuery(searchTerm, filters) ==
    [table |-> "new_universities",
     conds |-> When(searchTerm, Cond("ilike", {"university_name", "city", "state_province"},
                                     searchTerm))
               \o When(Field(filters, "country_id"),
                       Cond("eq", {"country_id"}, Field(filters, "country_id")))
               \o When(Field(filters, "university_type"),
                       Cond("ilike", {"university_type"}, Field(filters, "university_type"))),
     order |-> "university_name", single |-> FALSE]

\* The select searchCourses(searchTerm, filters) builds.
CoursesQuery(searchTerm, filters) ==
    [table |-> "new_courses",
     conds |-> When(searchTerm, Cond("ilike", {"program_name"}, searchTerm))
               \o When(Field(filters, "university_id"),
                       Cond("eq", {"university_id"}, Field(filters, "university_id")))
               \o When(Field(filters, "degree_level"),
                       Cond("eq", {"degree_level"}, Field(filters, "degree_level"))),
     order |-> "program_name", single |-> FALSE]

\* The select getCountryById, getUniversityById and getCourseById build:
\* .eq(col, id).single()
ByIdQuery(table, col, id) ==
    [table |-> table, conds |-> <<Cond("eq", {col}, id)>>, order |-> "none", single |-> TRUE]

\* The row r satisfies the condition c.
Holds(r, c) ==
    \E col \in c.cols :
        IF c.op = "eq" THEN EqCol(col, r[col], c.val) ELSE ILike(r[col], c.val.s)

\* The rows of its table the select q matches: the conditions are conjoined.
Matching(q) == {r \in tables[q.table] : \A i \in 1..Len(q.conds) : Holds(r, q.conds[i])}

\* A bug Ascending could have: the rows come in any order.
Unordered(S, col) ==
    LET n == Cardinality(S)
    IN {f \in [1..n -> S] : \A i, j \in 1..n : i # j => f[i] # f[j]}

\* Every order of the rows S that is ascending in the text column col.
Ascending(S, col) ==
    LET n == Cardinality(S)
    IN {f \in [1..n -> S] :
          /\ \A i, j \in 1..n : i # j => f[i] # f[j]
          /\ \A i, j \in 1..n : i < j => StrLeq(f[i][col], f[j][col])}

\* What the store client may resolve the select q with. .single() turns every
\* number of rows other than one into the one error PGRST116.
Answers(q) ==
    IF q.single
    THEN IF Cardinality(Matching(q)) = 1
         THEN {Envelope(Rows(<<r>>), "null") : r \in Matching(q)}
         ELSE {Envelope(Null, "PGRST116")}
    ELSE {Envelope(Rows(f), "null") : f \in Ascending(Matching(q), q.order)}

\* The select getAllCounselors builds.
CounselorsQuery ==
    [table |-> "counselors", conds |-> <<Cond("eq", {"is_available"}, TrueValue)>>,
     order |-> "display_name", single |-> FALSE]

\* The activation of the method fn, called with args, at its await: the
\* select q is sent.
Awaiting(fn, args, q) ==
    [pc |-> "awaiting", fn |-> fn, args |-> args, q |-> q, ret |-> NoEnvelope]

searchUniversities(searchTerm, filters) ==
    /\ query.pc = "idle"
    /\ query' = Awaiting("searchUniversities", [term |-> searchTerm, filters |-> filters],
                         UniversitiesQuery(searchTerm, filters))
    /\ UNCHANGED <<tables, catalogVars, requestVars, pageVars>>

searchCourses(searchTerm, filters) ==
    /\ query.pc = "idle"
    /\ query' = Awaiting("searchCourses", [term |-> searchTerm, filters |-> filters],
                         CoursesQuery(searchTerm, filters))
    /\ UNCHANGED <<tables, catalogVars, requestVars, pageVars>>

getCountryById(countryId) ==
    /\ query.pc = "idle"
    /\ query' = Awaiting("getCountryById",
                         [table |-> "n_countries", col |-> "country_id", id |-> countryId],
                         ByIdQuery("n_countries", "country_id", countryId))
    /\ UNCHANGED <<tables, catalogVars, requestVars, pageVars>>

getUniversityById(universityId) ==
    /\ query.pc = "idle"
    /\ query' = Awaiting("getUniversityById",
                         [table |-> "new_universities", col |-> "id", id |-> universityId],
                         ByIdQuery("new_universities", "id", universityId))
    /\ UNCHANGED <<tables, catalogVars, requestVars, pageVars>>

getCourseById(courseId) ==
    /\ query.pc = "idle"
    /\ query' = Awaiting("getCourseById",
                         [table |-> "new_courses", col |-> "id", id |-> courseId],
                         ByIdQuery("new_courses", "id", courseId))
    /\ UNCHANGED <<tables, catalogVars, requestVars, pageVars>>

getAllCounselors ==
    /\ query.pc = "idle"
    /\ query' = Awaiting("getAllCounselors", <<>>, CounselorsQuery)
    /\ UNCHANGED <<tables, catalogVars, requestVars, pageVars>>

\* The store answers the select or fails, and the method returns: the rows in
\* an envelope, or { data: null, error } with the error of the store client.
StoreAnswers ==
    /\ query.pc = "awaiting"
    /\ \E r \in Answers(query.q) \cup {TransportFailure} :
         query' = [query EXCEPT !.pc = "done", !.q = NoQuery, !.ret = Outcome(r).ret]
    /\ UNCHANGED <<tables, catalogVars, requestVars, pageVars>>

\* The caller takes the result of a search or lookup.
TakeAnswer ==
    /\ query.pc = "done"
    /\ query' = IdleQuery
    /\ UNCHANGED <<tables, catalogVars, requestVars, pageVars>>

\* ------------------------------------------------------------------ SignInPage
\* The route the redirect effect navigates to for a user of the role.
EffectRoute(role) ==
    IF role = "student" THEN "/student-dashboard"
    ELSE IF role = "counselor" THEN "/counselor-dashboard"
    ELSE "/dashboard"

\* The route the callback of handleSubmit's timer navigates to.
TimerRoute(role) ==
    IF role = "counselor" THEN "/counselor/dashboard"
    ELSE "/student/profile"

\* One call of navigate: for a user of which role, to which route, by whom.
Navigation(role, route, by) == [role |-> role, route |-> route, by |-> by]

\* The auth context finishes checking for a session: authLoading turns false
\* and user is the signed-in user u, or stays unset.
AuthResolves(u) ==
    /\ page.authLoading
    /\ page' = [page EXCEPT !.authLoading = FALSE, !.user = u, !.effectDue = TRUE]
    /\ UNCHANGED <<catalogVars, requestVars, queryVars>>

\* The effect runs after a render in which user or authLoading changed: it
\* navigates if the context has finished loading and holds a user.
RunEffect ==
    /\ page.effectDue
    /\ page' = [page EXCEPT
                  !.effectDue = FALSE,
                  !.navigated = IF ~page.authLoading /\ page.user # NoUser
                                THEN Append(@, Navigation(page.user, EffectRoute(page.user),
                                                          "effect"))
                                ELSE @]
    /\ UNCHANGED <<catalogVars, requestVars, queryVars>>

\* The form is submitted with fields that validateForm accepts or not. The
\* form is rendered only when the context has loaded and holds no user, and its
\* button is disabled while loading. Up to the await of login().
handleSubmit(valid) ==
    /\ ~page.authLoading /\ page.user = NoUser
    /\ ~page.loading /\ page.pc = "idle"
    /\ page.submits < MaxSubmits
    /\ page' = IF valid
               THEN [page EXCEPT !.loading = TRUE, !.error = "", !.pc = "awaiting",
                                 !.submits = @ + 1, !.last = "none"]
               ELSE [page EXCEPT !.error = "invalid", !.submits = @ + 1, !.last = "none"]
    /\ UNCHANGED <<catalogVars, requestVars, queryVars>>

\* The state after the continuation of handleSubmit ran for an outcome of
\* login(): result.success false, result.user missing, login() throwing, or
\* a user of the role, for whom the timer is set; the finally block sets
\* loading to false in each case.
Continued(p, outcome, role) ==
    IF outcome = "signedIn"
    THEN [p EXCEPT !.success = TRUE, !.timers = Append(@, role), !.loading = FALSE,
                   !.pc = "idle", !.last = outcome]
    ELSE [p EXCEPT !.error = outcome, !.loading = FALSE, !.pc = "idle", !.last = outcome]

\* login() settles and handleSubmit continues. A login that succeeds for a
\* user may have set the context's user to that user, which makes the effect
\* due.
LoginSettles(outcome, role, sets) ==
    /\ page.pc = "awaiting"
    /\ page' = IF outcome = "signedIn" /\ sets
               THEN [Continued(page, outcome, role) EXCEPT !.user = role, !.effectDue = TRUE]
               ELSE Continued(page, outcome, role)
    /\ UNCHANGED <<catalogVars, requestVars, queryVars>>

\* The timer numbered i goes off: its callback navigates by the role of
\* result.user.
TimerFires(i) ==
    /\ i \in 1..Len(page.timers)
    /\ page' = [page EXCEPT
                  !.timers = SubSeq(@, 1, i - 1) \o SubSeq(@, i + 1, Len(@)),
                  !.navigated = Append(@, Navigation(page.timers[i],
                                                     TimerRoute(page.timers[i]), "timer"))]
    /\ UNCHANGED <<catalogVars, requestVars, queryVars>>

\* ------------------------------------------------------------------ specifications
\* The page as it mounts: the context is loading, nothing was submitted.
PageInit ==
    page = [authLoading |-> TRUE, user |-> NoUser, effectDue |-> TRUE,
            loading |-> FALSE, error |-> "", success |-> FALSE, pc |-> "idle",
            submits |-> 0, timers |-> <<>>, navigated |-> <<>>, last |-> "none"]

CatalogInit ==
    /\ cache = [k \in CollSet |-> Null]
    /\ call = [s \in Slots |-> IdleCall]
    /\ stats = IdleStats
    /\ invalidated = FALSE

RequestsInit ==
    /\ requests = <<>>
    /\ now = 1
    /\ op = [t \in Clients |-> IdleOp]

\* No search or lookup runs, and the tables they read hold no row.
QueryInit ==
    /\ tables = [k \in TableNames |-> {}]
    /\ query = IdleQuery

\* Two callers of the cached reads, the tables behind them changing.
CacheInit ==
    /\ store \in [CollSet -> SUBSET Names]
    /\ \A k \in CollSet \ CachedColls : store[k] = {}
    /\ CatalogInit
    /\ PageInit
    /\ RequestsInit
    /\ QueryInit

CacheNext ==
    \/ \E s \in Callers : getAllCountries(s)
    \/ \E s \in Callers : getAllPathways(s)
    \/ \E s \in Callers : StoreResponds(s)
    \/ \E s \in Callers : ResumeGetAll(s)
    \/ \E s \in Callers : TakeResult(s)
    \/ \E k \in CachedColls : StoreChanges(k)
    \/ InvalidateAll

SpecCache == CacheInit /\ [][CacheNext]_vars

\* getStatistics called again and again, the tables behind the cached reads
\* changing.
StatsInit ==
    /\ store \in [CollSet -> SUBSET Names]
    /\ CatalogInit
    /\ PageInit
    /\ RequestsInit
    /\ QueryInit

StatsNext ==
    \/ GetStatistics
    \/ \E k \in CollSet : StoreResponds(k)
    \/ \E k \in CollSet : ResumeGetAll(k)
    \/ JoinStatistics
    \/ TakeStatistics
    \/ \E k \in CachedColls : StoreChanges(k)

SpecStats == StatsInit /\ [][StatsNext]_vars

\* One caller of the two cached reads while getStatistics runs its four, the
\* countries table changing and the pathways table full.
FillInit ==
    /\ store = [k \in CollSet |-> IF k = "pathways" THEN Names ELSE {}]
    /\ CatalogInit
    /\ PageInit
    /\ RequestsInit
    /\ QueryInit

FillNext ==
    \/ getAllCountries("c1")
    \/ getAllPathways("c1")
    \/ GetStatistics
    \/ \E s \in Slots : StoreResponds(s)
    \/ \E s \in Slots : ResumeGetAll(s)
    \/ TakeResult("c1")
    \/ JoinStatistics
    \/ TakeStatistics
    \/ StoreChanges("countries")

SpecFill == FillInit /\ [][FillNext]_vars

\* Two clients of the counselor request workflow over an empty table.
WorkflowInit ==
    /\ store = [k \in CollSet |-> {}]
    /\ CatalogInit
    /\ PageInit
    /\ RequestsInit
    /\ QueryInit

WorkflowNext ==
    \/ \E t \in Clients, s \in Students, c \in Counselors, st \in RequestDataStatuses :
         createCounselorRequest(t, [student_id |-> s, requested_counselor_id |-> c,
                                    status |-> st])
    \/ \E t \in Clients : StoreInserts(t)
    \/ \E t \in Clients, id \in 1..MaxRequests, st \in StatusArgs :
         updateCounselorRequestStatus(t, id, st, "")
    \/ \E t \in Clients : StoreUpdates(t)
    \/ \E t \in Clients : TakeOpResult(t)
    \/ Tick

SpecWorkflow == WorkflowInit /\ [][WorkflowNext]_vars

\* The reads that have no cache slot: two callers of getAllCourses, one of
\* them calling getAllUniversities too, over changing tables, and a client
\* that creates requests and reads them back.
VolatileColls == {"universities", "courses"}

VolatileInit ==
    /\ store \in [CollSet -> SUBSET Names]
    /\ \A k \in CollSet \ VolatileColls : store[k] = {}
    /\ CatalogInit
    /\ PageInit
    /\ RequestsInit
    /\ QueryInit

VolatileNext ==
    \/ getAllUniversities("c1")
    \/ \E s \in Callers : getAllCourses(s)
    \/ \E s \in Callers : StoreResponds(s)
    \/ \E s \in Callers : ResumeGetAll(s)
    \/ \E s \in Callers : TakeResult(s)
    \/ \E k \in VolatileColls : StoreChanges(k)
    \/ \E s \in Students, c \in Counselors, st \in RequestDataStatuses :
         createCounselorRequest("t1", [student_id |-> s, requested_counselor_id |-> c,
                                       status |-> st])
    \/ StoreInserts("t1")
    \/ \E s \in Students : getCounselorRequestByStudent("t1", s)
    \/ StoreSelects("t1")
    \/ TakeOpResult("t1")

SpecVolatile == VolatileInit /\ [][VolatileNext]_vars

\* The statuses a caller of createCounselorRequest may put in requestData.
CreateStatuses == {"requested", "approved", "declined"}

\* Two clients creating requests with any requestData.
CreateNext ==
    \/ \E t \in Clients, s \in Students, c \in Counselors, st \in CreateStatuses :
         createCounselorRequest(t, [student_id |-> s, requested_counselor_id |-> c,
                                    status |-> st])
    \/ \E t \in Clients : StoreInserts(t)
    \/ \E t \in Clients : TakeOpResult(t)

SpecCreate == WorkflowInit /\ [][CreateNext]_vars

\* One client creating requests, moving them through their statuses and
\* reading them back.
AuditNext ==
    \/ \E s \in Students, c \in Counselors, st \in RequestDataStatuses :
         createCounselorRequest("t1", [student_id |-> s, requested_counselor_id |-> c,
                                       status |-> st])
    \/ StoreInserts("t1")
    \/ \E id \in 1..MaxRequests, st \in StatusArgs :
         updateCounselorRequestStatus("t1", id, st, "")
    \/ StoreUpdates("t1")
    \/ \E s \in Students : getCounselorRequestByStudent("t1", s)
    \/ StoreSelects("t1")
    \/ TakeOpResult("t1")

SpecAudit == WorkflowInit /\ [][AuditNext]_vars

\* The rows the searched tables are drawn from: ids, texts of lower-case
\* names, and types and levels in mixed case.
Ids == 1..MaxTableRows
NameTexts == {<<"a">>, <<"b">>}
KindTexts == {<<"a">>, <<"A", "b">>}
ForeignIds == {1, 2}

UniversityRows ==
    [id : Ids, university_name : NameTexts, city : {<<"b">>}, state_province : {<<>>},
     country_id : ForeignIds, university_type : KindTexts]
CourseRows ==
    [id : Ids, program_name : NameTexts, university_id : ForeignIds, degree_level : KindTexts]
CountryRows == [country_id : Ids, country_name : NameTexts]

\* The tables of at most MaxTableRows rows of R, and those of them in which
\* the column key identifies the row.
TablesOf(R) == UNION {{{f[i] : i \in 1..n} : f \in [1..n -> R]} : n \in 0..MaxTableRows}
Keyed(T, key) == \A r1, r2 \in T : r1[key] = r2[key] => r1 = r2

\* What the callers pass: the empty values, and values that match some row.
EmptyValues == {Undefined, NullValue, Str(<<>>)}
Terms == {Str(<<>>), Str(<<"A">>)}
IdFilters == EmptyValues \cup {Num(1)}
KindFilters == EmptyValues \cup {Str(<<"a">>)}

\* The filters objects with some of the fields F, F[k] being the values of k.
FiltersOver(F) ==
    UNION {{f \in [D -> UNION {F[k] : k \in DOMAIN F}] : \A k \in D : f[k] \in F[k]} :
             D \in SUBSET DOMAIN F}
UniversityFilters == FiltersOver([country_id |-> IdFilters, university_type |-> KindFilters])
CourseFilters == FiltersOver([university_id |-> IdFilters, degree_level |-> KindFilters])

\* The searches over a table of universities or a table of courses.
SearchInit ==
    /\ store = [k \in CollSet |-> {}]
    /\ CatalogInit
    /\ PageInit
    /\ RequestsInit
    /\ query = IdleQuery
    /\ \/ \E T \in TablesOf(UniversityRows) :
            /\ Keyed(T, "id")
            /\ tables = [n_countries |-> {}, new_universities |-> T, new_courses |-> {},
                      counselors |-> {}]
       \/ \E U \in TablesOf(CourseRows) :
            /\ Keyed(U, "id")
            /\ tables = [n_countries |-> {}, new_universities |-> {}, new_courses |-> U,
                      counselors |-> {}]

SearchNext ==
    \/ \E searchTerm \in Terms, filters \in UniversityFilters :
         searchUniversities(searchTerm, filters)
    \/ \E searchTerm \in Terms, filters \in CourseFilters :
         searchCourses(searchTerm, filters)
    \/ StoreAnswers
    \/ TakeAnswer

SpecSearch == SearchInit /\ [][SearchNext]_vars

\* The ids the callers of the lookups pass.
IdValues == {Num(i) : i \in Ids}

\* The lookups by id over tables in which an id may match several rows.
LookupInit ==
    /\ store = [k \in CollSet |-> {}]
    /\ CatalogInit
    /\ PageInit
    /\ RequestsInit
    /\ query = IdleQuery
    /\ \E k \in {"n_countries", "new_universities", "new_courses"} :
         \E T \in TablesOf(IF k = "n_countries" THEN CountryRows
                           ELSE IF k = "new_universities"
                           THEN {r \in UniversityRows :
                                    r.country_id = 1 /\ r.university_type = <<"a">>}
                           ELSE {r \in CourseRows :
                                    r.university_id = 1 /\ r.degree_level = <<"a">>}) :
           tables = [n \in TableNames |-> IF n = k THEN T ELSE {}]

LookupNext ==
    \/ \E countryId \in IdValues : getCountryById(countryId)
    \/ \E universityId \in IdValues : getUniversityById(universityId)
    \/ \E courseId \in IdValues : getCourseById(courseId)
    \/ StoreAnswers
    \/ TakeAnswer

SpecLookup == LookupInit /\ [][LookupNext]_vars

CounselorRows == [id : Ids, display_name : NameTexts, is_available : BOOLEAN]
ListedColls == {"countries", "universities"}

\* The list methods: one caller of getAllCountries and getAllUniversities
\* over changing tables, and getAllCounselors over a table of counselors.
ListInit ==
    /\ store \in [CollSet -> SUBSET Names]
    /\ \A k \in CollSet \ ListedColls : store[k] = {}
    /\ CatalogInit
    /\ PageInit
    /\ RequestsInit
    /\ query = IdleQuery
    /\ \E K \in TablesOf(CounselorRows) :
         /\ Keyed(K, "id")
         /\ tables = [k \in TableNames |-> IF k = "counselors" THEN K ELSE {}]

ListNext ==
    \/ getAllCountries("c1")
    \/ getAllUniversities("c1")
    \/ StoreResponds("c1")
    \/ ResumeGetAll("c1")
    \/ TakeResult("c1")
    \/ \E k \in ListedColls : StoreChanges(k)
    \/ getAllCounselors
    \/ StoreAnswers
    \/ TakeAnswer

SpecList == ListInit /\ [][ListNext]_vars

\* The rows a counselor_requests table may hold once requests were assigned
\* and resolved: an approved row carries the time of its approval.
ResolvedRows(id) ==
    {r \in [id : {id}, student_id : Students, requested_counselor_id : Counselors,
             counselor_id : Counselors \cup {"null"},
             status : {"requested", "approved", "declined"}, admin_notes : {""},
             requested_at : {0},
             approved_at : 0..MaxClock, updated_at : 0..MaxClock] :
        /\ (r.status = "approved") = (r.approved_at # 0)
        /\ r.updated_at = r.approved_at}

\* A counselor reading the caseload from a table of assigned and resolved
\* requests.
CaseloadInit ==
    /\ store = [k \in CollSet |-> {}]
    /\ CatalogInit
    /\ PageInit
    /\ QueryInit
    /\ now = 1
    /\ op = [t \in Clients |-> IdleOp]
    /\ \E n \in 0..MaxRequests :
         requests \in {q \in [1..n -> UNION {ResolvedRows(i) : i \in 1..n}] :
                          \A i \in 1..n : q[i].id = i}

CaseloadNext ==
    \/ \E c \in Counselors : getCounselorStudents("t1", c)
    \/ StoreSelects("t1")
    \/ TakeOpResult("t1")

SpecCaseload == CaseloadInit /\ [][CaseloadNext]_vars

\* The rows a counselor_requests table may hold before an administrator has
\* looked at them: some already assigned a counselor, some carrying notes, each
\* stamped with the time it was requested at.
NoteTexts == {"", "called"}
PendingRows(id) ==
    [id : {id}, student_id : {"s1"}, requested_counselor_id : Counselors,
     counselor_id : Counselors \cup {"null"},
     status : {"requested"}, admin_notes : NoteTexts,
     requested_at : {1}, approved_at : {0}, updated_at : {0}]

\* An administrator updating the status of requests, with and without notes,
\* by ids the table holds and ids it does not.
AdminNotes == {"", "reviewed"}

FrameInit ==
    /\ store = [k \in CollSet |-> {}]
    /\ CatalogInit
    /\ PageInit
    /\ QueryInit
    /\ now = 2
    /\ op = [t \in Clients |-> IdleOp]
    /\ \E n \in 0..MaxRequests :
         requests \in {q \in [1..n -> UNION {PendingRows(i) : i \in 1..n}] :
                          \A i \in 1..n : q[i].id = i}

FrameNext ==
    \/ \E id \in 1..MaxRequests, st \in {"approved", "declined"}, notes \in AdminNotes :
         updateCounselorRequestStatus("t1", id, st, notes)
    \/ StoreUpdates("t1")
    \/ TakeOpResult("t1")

SpecFrame == FrameInit /\ [][FrameNext]_vars

\* A client that creates requests, approves requests and reads the caseload
\* of a counselor, over a table that starts empty.
AssignNext ==
    \/ \E s \in Students, c \in Counselors, st \in RequestDataStatuses :
         createCounselorRequest("t1", [student_id |-> s, requested_counselor_id |-> c,
                                       status |-> st])
    \/ StoreInserts("t1")
    \/ \E id \in 1..MaxRequests : updateCounselorRequestStatus("t1", id, "approved", "")
    \/ StoreUpdates("t1")
    \/ \E c \in Counselors : getCounselorStudents("t1", c)
    \/ StoreSelects("t1")
    \/ TakeOpResult("t1")

\* The step in which the client's caseload read for counselor c is sent.
CaseloadRequested(c) == getCounselorStudents("t1", c)

\* The step in which the store answers the client's read with rows.
CaseloadAnswered == StoreSelects("t1") /\ op'["t1"].error = "null"

\* Every promise of the store client settles and the caller resumes; the
\* counselor's dashboard asks for the caseload again and again, and the store
\* does not fail every one of these reads.
AssignFairness ==
    /\ WF_vars(StoreInserts("t1"))
    /\ WF_vars(StoreUpdates("t1"))
    /\ WF_vars(TakeOpResult("t1"))
    /\ \A c \in Counselors : SF_vars(CaseloadRequested(c))
    /\ SF_vars(CaseloadAnswered)

SpecAssign == WorkflowInit /\ [][AssignNext]_vars /\ AssignFairness

\* The outcomes of login() that handleSubmit tells apart.
LoginOutcomes == {"failed", "noUser", "threw", "signedIn"}

\* A visitor on the sign-in page: the context loads, the form is submitted,
\* login() settles, the effect runs and the timers go off in any order.
SignInNext ==
    \/ \E u \in Roles \cup {NoUser} : AuthResolves(u)
    \/ RunEffect
    \/ \E valid \in BOOLEAN : handleSubmit(valid)
    \/ \E outcome \in LoginOutcomes, role \in Roles, sets \in BOOLEAN :
         LoginSettles(outcome, role, sets)
    \/ \E i \in 1..MaxSubmits : TimerFires(i)

SpecSignIn == WorkflowInit /\ [][SignInNext]_vars

\* ------------------------------------------------------------------ properties
\* The reads of collection k that are with the store or back from it.
InFlight(k) == {s \in Slots : call[s].coll = k /\ call[s].pc \in {"awaiting", "responded"}}

\* The ids of the stored requests, and those of student s that are active.
RequestIds == 1..Len(requests)
ActiveOf(s) == {i \in RequestIds : requests[i].student_id = s /\ requests[i].status = "requested"}

\* C1: single-flight. Calls of a cached read for the same uncached key that
\* overlap share one remote read: at no time are two remote reads of the same
\* cached collection in flight.
SingleFlight == \A k \in CachedColls : Cardinality(InFlight(k)) <= 1

\* C2: of two createRequest calls for the same student that overlap (each was
\* made before the other's row was stored), the student having no active
\* request, only one stores a row: the store step of the second one, made when
\* the first one's row is in the table, inserts nothing and answers
\* DuplicateRequest.
ConcurrentCreateStoresOne ==
    [][\A t \in Clients, u \in Clients :
         ( /\ t # u
           /\ op[t].pc = "done" /\ op[t].error = "null" /\ op[t].id \in RequestIds
           /\ op[u].pc = "inserting" /\ op[u].before < op[t].id
           /\ op[u].data[1].status = "requested"
           /\ op[u].data[1].student_id = requests[op[t].id].student_id
           /\ ActiveOf(op[u].data[1].student_id) = {op[t].id}
           /\ op'[u].pc = "done" )
         => (requests' = requests /\ op'[u].error = "DuplicateRequest")]_vars

\* C3: every student has at most one stored request with status requested.
AtMostOneActiveRequest == \A s \in Students : Cardinality(ActiveOf(s)) <= 1

\* C4: approved and declined are terminal: no step changes a stored request
\* whose status is approved or declined.
TerminalIsFinal ==
    [][\A i \in RequestIds :
         requests[i].status \in {"approved", "declined"} => requests'[i] = requests[i]]_vars

\* C5: every stored request has a status among requested, approved, declined.
StatusInDomain ==
    \A i \in RequestIds : requests[i].status \in {"requested", "approved", "declined"}

\* C6: a stored request has approved_at set exactly when its status is approved.
ApprovedAtIffApproved ==
    \A i \in RequestIds : (requests[i].approved_at # 0) <=> (requests[i].status = "approved")

\* C7: the stored updated_at of a request never decreases, overlapping
\* updateStatus calls included.
UpdatedAtMonotone ==
    [][\A i \in RequestIds : requests'[i].updated_at >= requests[i].updated_at]_vars

\* C8: a failed load does not poison the cache. The continuation of a cached
\* read whose remote read failed leaves this.cache as it was and returns
\* {data: null, error}; a call made while the slot is empty sends a remote
\* read; and a remote read that succeeded fills the slot with its rows.
FailedLoadDoesNotPoison ==
    [][\A s \in Callers :
         /\ (call[s].pc = "responded" /\ call[s].resp.error # "null" /\ Settled(call'[s]))
              => /\ cache' = cache
                 /\ call'[s].pc = "fulfilled"
                 /\ call'[s].ret = Envelope(Null, call[s].resp.error)
         /\ (call[s].pc = "idle" /\ call'[s].pc # "idle" /\ cache[call'[s].coll] = Null)
              => call'[s].pc = "awaiting"
         /\ (call[s].pc = "responded" /\ call[s].resp.error = "null" /\ Settled(call'[s]))
              => /\ cache'[call[s].coll] = call[s].resp.data
                 /\ call'[s].ret = Envelope(call[s].resp.data, "null")]_vars

\* C8's case: one caller's read of a collection failed and was returned as
\* {data: null, error}, the slot is still empty, and the other caller's call
\* has been answered with rows by the store.
FailedLoadRetried ==
    \E s \in Callers, u \in Callers :
        /\ s # u
        /\ call[s].pc = "fulfilled" /\ call[s].ret.error = "TransportError"
        /\ cache[call[s].coll] = Null
        /\ call[u].pc = "responded" /\ call[u].coll = call[s].coll
        /\ call[u].resp.data.kind = "rows"

\* C9: the first getAllCountries() after an invalidateAll() sends a remote read.
InvalidateForcesFreshRead ==
    [][\A s \in Callers :
         (invalidated /\ call[s].pc = "idle" /\ call'[s].coll = "countries")
            => call'[s].pc = "awaiting"]_vars

\* C10: getStatistics tolerates partial failure. When it resolves, none of the
\* four calls has thrown, and each count is the number of rows its call got
\* (from the store, or from the cache slot) or 0 if that call failed.
StatisticsTolerateFailure ==
    stats.pc = "done" =>
        \A k \in CollSet :
            LET a == call[k]
                got == IF a.resp.data.kind = "rows" THEN a.resp.data ELSE cache[k]
            IN /\ a.pc = "fulfilled"
               /\ a.resp.error # "null" => (a.ret.error # "null" /\ stats.ret[k] = 0)
               /\ a.resp.error = "null" =>
                    (a.ret = Envelope(got, "null") /\ stats.ret[k] = Len(got.rows))

\* C10's case: the courses query failed over a table that holds rows, and the
\* three other counts are those of the tables.
StatisticsWithCoursesFailed ==
    /\ stats.pc = "done"
    /\ call["courses"].ret.error = "TransportError"
    /\ store["courses"] # {}
    /\ stats.ret["courses"] = 0
    /\ \A k \in CollSet \ {"courses"} :
         call[k].ret.error = "null" /\ stats.ret[k] = Cardinality(store[k]) /\ stats.ret[k] > 0

\* C11: every public operation resolves with a result envelope {data, error}
\* and never throws: each settled getAll* call is fulfilled with an object
\* whose fields are data and error, and so is getStatistics.
EveryOperationReturnsEnvelope ==
    /\ \A s \in Slots :
         Settled(call[s]) => (call[s].pc = "fulfilled" /\ DOMAIN call[s].ret = {"data", "error"})
    /\ stats.pc = "done" => DOMAIN stats.ret = {"data", "error"}

\* The set of the elements of the sequence q.
Range(q) == {q[i] : i \in 1..Len(q)}

\* C12: volatile collections bypass the cache. The slots of universities and
\* courses are null at all times; every call of getAllUniversities,
\* getAllCourses or getCounselorRequestByStudent sends a select; the store's
\* answer is the rows it holds at that time, and that answer is what the call
\* returns.
VolatileReadsBypassCache ==
    /\ \A k \in VolatileColls : cache[k] = Null
    /\ [][/\ \A k \in VolatileColls : cache'[k] = Null
          /\ \A s \in Callers :
               /\ (call[s].pc = "idle" /\ call'[s].coll \in VolatileColls)
                    => call'[s].pc = "awaiting"
               /\ (call[s].pc = "awaiting" /\ call'[s].pc = "responded"
                     /\ call[s].coll \in VolatileColls /\ call'[s].resp.error = "null")
                    => /\ Range(call'[s].resp.data.rows) = store[call[s].coll]
                       /\ Len(call'[s].resp.data.rows) = Cardinality(store[call[s].coll])
               /\ (call[s].pc = "responded" /\ Settled(call'[s])
                     /\ call[s].coll \in VolatileColls /\ call[s].resp.error = "null")
                    => call'[s].ret = Envelope(call[s].resp.data, "null")
          /\ \A t \in Clients :
               /\ (op[t].pc = "idle" /\ op'[t].pc \notin {"idle", "inserting", "updating"})
                    => op'[t].pc = "selecting"
               /\ (op[t].pc = "selecting" /\ op[t].data[1].query = "byStudent"
                     /\ op'[t].pc = "done" /\ op'[t].error = "null")
                    => /\ Range(op'[t].data) =
                            {requests[i] : i \in RequestsOfStudent(op[t].data[1].arg)}
                       /\ Len(op'[t].data) = Cardinality(RequestsOfStudent(op[t].data[1].arg))]_vars

\* C12's case: both callers hold the rows of courses, read at different times
\* and different, no slot of a volatile collection is filled, and the client
\* has read back the two requests of a student.
VolatileReadTwice ==
    /\ call["c1"].pc = "fulfilled" /\ call["c1"].coll = "courses"
    /\ call["c2"].pc = "fulfilled" /\ call["c2"].coll = "courses"
    /\ call["c1"].ret.error = "null" /\ call["c2"].ret.error = "null"
    /\ call["c1"].ret.data # call["c2"].ret.data
    /\ \A k \in VolatileColls : cache[k] = Null
    /\ op["t1"].pc = "done" /\ op["t1"].error = "null" /\ Len(op["t1"].data) = 2

\* C13: every record inserted by createCounselorRequest is stored with status
\* requested, whatever requestData the caller supplies: the row an insert
\* appends to the table has status "requested".
InsertStoresRequested ==
    [][Len(requests') = Len(requests) + 1
         => requests'[Len(requests')].status = "requested"]_vars

\* The ids of the rows held in counselor_requests.
StoredIds == {requests[i].id : i \in 1..Len(requests)}

\* The rows that are in a terminal state.
TerminalRows == {requests[i] : i \in {j \in 1..Len(requests) :
                                         requests[j].status \in {"approved", "declined"}}}

\* C14: counselor requests are never deleted: every step keeps every stored
\* id, and a successful read of a student's requests returns every approved
\* or declined request of that student.
RequestsNeverDeleted ==
    [][/\ StoredIds \subseteq StoredIds'
       /\ \A t \in Clients :
            (op[t].pc = "selecting" /\ op[t].data[1].query = "byStudent"
               /\ op'[t].pc = "done" /\ op'[t].error = "null")
              => {r \in TerminalRows : r.student_id = op[t].data[1].arg}
                   \subseteq Range(op'[t].data)]_vars

\* C14's case: a declined and an approved request are stored, and the client
\* has read back the declined one.
TerminalRequestsRetained ==
    /\ Len(requests) = 2
    /\ requests[1].status = "declined" /\ requests[2].status = "approved"
    /\ op["t1"].pc = "done" /\ op["t1"].error = "null"
    /\ Len(op["t1"].data) >= 1
    /\ \E i \in 1..Len(op["t1"].data) : op["t1"].data[i] = requests[1]

\* The rows of the table a lookup reads whose id column holds the id asked for.
RowsWithId(a) == {r \in tables[a.table] : r[a.col] = a.id.n}

\* C15: a lookup by id that matches no row returns {data: null, error:
\* NotFound}, and one that matches more than one row returns the error
\* AmbiguousResult (the store having answered the select).
LookupErrorKinds ==
    (/\ query.pc = "done"
     /\ query.fn \in {"getCountryById", "getUniversityById", "getCourseById"}
     /\ query.ret.error # "TransportError")
    => /\ Cardinality(RowsWithId(query.args)) = 0 => query.ret = Envelope(Null, "NotFound")
       /\ Cardinality(RowsWithId(query.args)) > 1 => query.ret.error = "AmbiguousResult"

\* The filters object with the fields left out whose value is empty.
Supplied(filters) ==
    [k \in {d \in DOMAIN filters : filters[d] \notin EmptyValues} |-> filters[k]]

\* The select the search method fn builds.
SearchQuery(fn, searchTerm, filters) ==
    IF fn = "searchUniversities" THEN UniversitiesQuery(searchTerm, filters)
    ELSE CoursesQuery(searchTerm, filters)

\* C16: a filter with an empty value (undefined, null, "") constrains nothing:
\* what a search returns is a result of the same search with those filters
\* left out of the filters object.
EmptyFilterIsNoFilter ==
    [][(/\ query.pc = "awaiting" /\ query'.pc = "done"
        /\ query.fn \in {"searchUniversities", "searchCourses"}
        /\ query'.ret.error = "null")
       => query'.ret \in Answers(SearchQuery(query.fn, query.args.term,
                                             Supplied(query.args.filters)))]_vars

\* C16's case: a search given null for country_id and a type that matches has
\* returned two universities, and so has a search of courses given "" for
\* university_id.
SearchedWithEmptyFilter ==
    /\ query.pc = "done" /\ query.ret.error = "null"
    /\ Len(query.ret.data.rows) = 2
    /\ \/ /\ query.fn = "searchUniversities"
          /\ DOMAIN query.args.filters = {"country_id", "university_type"}
          /\ query.args.filters["country_id"] = NullValue
          /\ query.args.filters["university_type"] = Str(<<"a">>)
       \/ /\ query.fn = "searchCourses"
          /\ DOMAIN query.args.filters = {"university_id", "degree_level"}
          /\ query.args.filters["university_id"] = Str(<<>>)
          /\ query.args.filters["degree_level"] = Str(<<"a">>)

\* C18: the structural filters are equalities, conjoined: every row a search
\* returns holds, in the column of each filter supplied, exactly the value
\* supplied.
StructuralFiltersExact ==
    (/\ query.pc = "done" /\ query.ret.error = "null"
     /\ query.fn \in {"searchUniversities", "searchCourses"})
    => \A i \in 1..Len(query.ret.data.rows) :
         \A k \in DOMAIN Supplied(query.args.filters) :
            EqCol(k, query.ret.data.rows[i][k], query.args.filters[k])

\* The sequence q of row names is ascending and holds exactly the rows S.
IsListOf(q, S) ==
    /\ Len(q) = Cardinality(S) /\ Range(q) = S
    /\ \A i, j \in 1..Len(q) : i < j => q[i] < q[j]

\* The sequence q of counselors is ascending by display_name and holds
\* exactly the rows S.
IsCounselorListOf(q, S) ==
    /\ Len(q) = Cardinality(S) /\ Range(q) = S
    /\ \A i, j \in 1..Len(q) : i < j => StrLeq(q[i].display_name, q[j].display_name)

CaseloadIsApprovedAssigned ==
    [][\A t \in Clients :
         (/\ op[t].pc = "selecting" /\ op[t].data[1].query = "students"
          /\ op'[t].pc = "done" /\ op'[t].error = "null")
         => LET res == op'[t].data
                S == {requests[i] : i \in {j \in 1..Len(requests) :
                                             /\ requests[j].counselor_id = op[t].data[1].arg
                                             /\ requests[j].status = "approved"}}
            IN /\ Range(res) = S /\ Len(res) = Cardinality(S)
               /\ \A i, j \in 1..Len(res) : i < j => res[i].approved_at >= res[j].approved_at]_vars

\* C19's case: the counselor k1 has read a caseload of one request from a
\* table that also holds a declined request assigned to k1.
CaseloadWithoutDeclined ==
    /\ op["t1"].pc = "done" /\ op["t1"].error = "null"
    /\ Len(op["t1"].data) = 1 /\ Len(requests) = 2
    /\ op["t1"].data[1].counselor_id = "k1"
    /\ \E i \in 1..Len(requests) :
         requests[i].status = "declined" /\ requests[i].counselor_id = "k1"

\* C20: once a slot of the cache is filled, it holds the same array from then
\* on (there being no call that clears it), so that every later call returns
\* that array.
CachedArrayIsStable ==
    [][\A k \in CachedColls : Truthy(cache[k]) => cache'[k] = cache[k]]_vars

\* C21: a cache slot changes only in the continuation of a read of that same
\* collection whose response carried no error, and to exactly the rows of that
\* response; the slots start empty, so every populated slot holds the rows of
\* an earlier successful read of its collection, whatever the interleaving of
\* getAllCountries, getAllPathways and getStatistics.
SlotFilledFromOwnRead ==
    [][\A k \in CollSet :
         cache'[k] # cache[k] =>
           \E s \in Slots :
             /\ call[s].pc = "responded"
             /\ call'[s].pc = "fulfilled"
             /\ call[s].coll = k
             /\ k \in {"countries", "pathways"}
             /\ call[s].resp.error = "null"
             /\ call[s].resp.data.kind = "rows"
             /\ cache'[k] = call[s].resp.data]_vars

\* The countries slot is filled while getStatistics is joining, the caller's
\* own read of pathways having failed and left its slot empty.
SlotFilledBesideFailedRead ==
    /\ stats.pc = "joining"
    /\ cache["countries"].kind = "rows"
    /\ cache["countries"].rows # <<>>
    /\ call["c1"].coll = "pathways"
    /\ call["c1"].pc = "fulfilled"
    /\ call["c1"].ret.error = "TransportError"
    /\ cache["pathways"] = Null

\* C22: when the store has run an update of updateCounselorRequestStatus, every
\* other request is as it was, and the targeted request keeps its id,
\* student_id, requested_counselor_id, counselor_id and requested_at, keeps its
\* admin_notes if no adminNotes was passed and its approved_at if the new
\* status is not approved, and has the status, the updated_at and, where
\* passed, the admin_notes of the call; an id that matches no request returns
\* an error and leaves the table as it was.
UpdateTouchesOnlyItsColumns ==
    [][\A t \in Clients :
         (op[t].pc = "updating" /\ op'[t].pc = "done") =>
           LET id == op[t].id
               u == op[t].data[1]
           IN /\ Len(requests') = Len(requests)
              /\ \A i \in RequestIds : i # id => requests'[i] = requests[i]
              /\ id \notin RequestIds => (op'[t].error # "null" /\ requests' = requests)
              /\ op'[t].error # "null" => requests' = requests
              /\ (id \in RequestIds /\ op'[t].error = "null") =>
                   /\ requests'[id].id = requests[id].id
                   /\ requests'[id].student_id = requests[id].student_id
                   /\ requests'[id].requested_counselor_id = requests[id].requested_counselor_id
                   /\ requests'[id].counselor_id = requests[id].counselor_id
                   /\ requests'[id].requested_at = requests[id].requested_at
                   /\ requests'[id].status = u.status
                   /\ requests'[id].updated_at = u.updated_at
                   /\ requests'[id].admin_notes =
                        (IF u.admin_notes = "" THEN requests[id].admin_notes ELSE u.admin_notes)
                   /\ requests'[id].approved_at =
                        (IF u.status = "approved" THEN u.approved_at
                         ELSE requests[id].approved_at)]_vars

\* A request that carried notes was declined without adminNotes and kept its
\* notes, beside another request that is still as it was requested.
DeclinedKeepingNotes ==
    /\ op["t1"].pc = "done"
    /\ op["t1"].error = "null"
    /\ op["t1"].id \in RequestIds
    /\ requests[op["t1"].id].status = "declined"
    /\ requests[op["t1"].id].admin_notes = "called"
    /\ requests[op["t1"].id].updated_at = 2
    /\ requests[op["t1"].id].counselor_id = "k1"
    /\ \E i \in RequestIds : i # op["t1"].id /\ requests[i].status = "requested"

\* The request with id i is stored as approved, and a caseload read has
\* returned it to the counselor it was requested for.
IsApproved(i) == i \in RequestIds /\ requests[i].status = "approved"
IsListed(i) ==
    /\ op["t1"].pc = "done"
    /\ op["t1"].error = "null"
    /\ \E j \in 1..Len(op["t1"].data) :
         /\ op["t1"].data[j].id = i
         /\ op["t1"].data[j].requested_counselor_id = requests[i].requested_counselor_id

\* C23: a request created by createCounselorRequest for a counselor and moved
\* to approved by updateCounselorRequestStatus is eventually returned by a
\* getCounselorStudents call for that counselor.
ApprovedEventuallyListed ==
    \A i \in 1..MaxRequests : [](IsApproved(i) => <>IsListed(i))

\* C24: the navigations the page has issued for a user of one role, by the
\* effect and by the timers in whichever order they ran, all target one
\* route; and the step in which a login that failed or threw settles issues no
\* navigation, sets no timer and leaves loading false.
SignInRoutesAgree ==
    [][/\ \A i, j \in 1..Len(page'.navigated) :
            page'.navigated[i].role = page'.navigated[j].role
              => page'.navigated[i].route = page'.navigated[j].route
       /\ (page.pc = "awaiting" /\ page'.pc = "idle" /\ page'.last \in {"failed", "threw"})
            => /\ page'.navigated = page.navigated
               /\ page'.timers = page.timers
               /\ page'.loading = FALSE]_vars

====
